---------------------------- MODULE Spec2Model ----------------------------
(***************************************************************************)
(* A model of client/client_actions/grr_volatility.py:                     *)
(*   - ProtobufRenderer.AddValue, the coercion of one volatility value to  *)
(*     one value record of the response protobuf;                          *)
(*   - ProtobufRenderer, the section state machine that fills a            *)
(*     VolatilityResponse;                                                 *)
(*   - VolatilityAction.Run, the client action that recovers or builds the *)
(*     volatility session of a device, applies the request's arguments and *)
(*     runs the requested plugins, one response per plugin.                *)
(* Optional protobuf fields and Python's None are sequences of length at   *)
(* most one: <<>> is "not set" / None, <<v>> is the value v.  Texts are    *)
(* sequences of one-character strings, so that int(text) is computed.      *)
(***************************************************************************)
EXTENDS Integers, Sequences, FiniteSets, TLC

VARIABLES
  \* ---- AddValue on its own (SpecValue)
  val_in,           \* the value handed to AddValue
  val_out,          \* <<>> before the call, <<[values, exc]>> after it
  \* ---- one ProtobufRenderer (SpecRenderer)
  rend,             \* the renderer object: response, active_section, mode
  calls,            \* history: the calls made on the renderer, in order
  rexc,             \* the exception the last call raised ("" when none)
  returned,         \* history: <<>>, or <<the document as the last GetResponse() returned it>>
  \* ---- VolatilityAction.Run (Spec, SpecOverlap)
  SESSION_CACHE,    \* utils.FastStore: <<[key, data]>>, least recently used first
  sessions,         \* the heap of session.Session objects, by identity
  pc,               \* each invocation's position in Run
  args,             \* each invocation's request
  vol_session,      \* each invocation's local vol_session: <<>> or <<identity>>
  plugin_i,         \* each invocation's index into args.plugins
  error,            \* each invocation's local error
  exc,              \* the exception in flight in each invocation ("" when none)
  result_renderer,  \* each invocation's local result_renderer
  status,           \* "idle", "running", "returned" or "raised"
  replies,          \* what each invocation sent with SendReply, in order
  sink,             \* per invocation (the action instance): the heartbeats its self.Progress() got
  events,           \* history: what each invocation did, in order
  cachedAtGet,      \* history: the sessions held by SESSION_CACHE when the invocation called Get
  startedAfter      \* history: the invocations that had ended when this one began

valvars  == <<val_in, val_out>>
rendvars == <<rend, calls, rexc, returned>>
runvars  == <<SESSION_CACHE, sessions, pc, args, vol_session, plugin_i, error, exc,
              result_renderer, status, replies, sink, events, cachedAtGet, startedAfter>>
vars     == <<valvars, rendvars, runvars>>

---------------------------------------------------------------------------
(* Bounds of the model.                                                    *)
MaxTextLen == 2      \* longest textual rendering of an object that is enumerated
MaxCalls   == 4      \* calls made on one renderer in SpecRenderer
NumRuns    == 2      \* invocations of Run
MaxPlugins == 2      \* longest list of requested plugins
CacheSize  == 1      \* entries SESSION_CACHE holds before it evicts

---------------------------------------------------------------------------
(* Optional values.                                                        *)
Unset   == <<>>
Some(v) == <<v>>
IsSet(o) == Len(o) = 1
Get1(o)  == o[1]

(* Outcome of a call into volatility or Python: a value or an exception.   *)
Ret(v, none)   == [ok |-> TRUE,  val |-> v,    exc |-> ""]
Raise(e, none) == [ok |-> FALSE, val |-> none, exc |-> e]

(* Exceptions: the class and the message; ascii is FALSE for a unicode     *)
(* message with a character outside ASCII.                                 *)
Exc(type, msg, ascii) == [type |-> type, msg |-> msg, ascii |-> ascii]
NoExc == Exc("", "", TRUE)

(* str(e) in Python 2: the message, which is encoded as ASCII when it is   *)
(* unicode; UnicodeEncodeError when that cannot be done.                   *)
PyStr(e) ==
  IF e.ascii THEN Ret(e.msg, "") ELSE Raise("UnicodeEncodeError", "")

---------------------------------------------------------------------------
(* Texts and Python's int(text).                                           *)
Chars == {"0", "7", "-", "x", " "}
DigitChars == <<"0", "1", "2", "3", "4", "5", "6", "7", "8", "9">>
IsDigit(c) == \E k \in 1..10 : DigitChars[k] = c
DigitVal(c) == (CHOOSE k \in 1..10 : DigitChars[k] = c) - 1

RECURSIVE LStrip(_)
LStrip(s) ==
  IF s # <<>> /\ Head(s) = " " THEN LStrip(Tail(s)) ELSE s

RECURSIVE RStrip(_)
RStrip(s) ==
  IF s # <<>> /\ s[Len(s)] = " " THEN RStrip(SubSeq(s, 1, Len(s) - 1)) ELSE s

RECURSIVE DigitsVal(_, _)
DigitsVal(s, acc) ==
  IF s = <<>> THEN acc ELSE DigitsVal(Tail(s), 10 * acc + DigitVal(Head(s)))

(* The integer of an optionally signed text t whose digits are d.          *)
PyIntDigits(t, d) ==
  IF d # <<>> /\ \A k \in 1..Len(d) : IsDigit(d[k])
  THEN Ret(IF Head(t) = "-" THEN 0 - DigitsVal(d, 0) ELSE DigitsVal(d, 0), 0)
  ELSE Raise("ValueError", 0)

PyIntStripped(t) ==
  PyIntDigits(t, IF t # <<>> /\ Head(t) \in {"-", "+"} THEN Tail(t) ELSE t)

(* int(string_value), base 10: surrounding blanks are dropped, one sign is *)
(* allowed, then at least one digit and nothing else; ValueError otherwise.*)
PyInt(s) == PyIntStripped(RStrip(LStrip(s)))

(* str(True) and str(False).                                               *)
PyStrBool(b) ==
  IF b THEN <<"T", "r", "u", "e">> ELSE <<"F", "a", "l", "s", "e">>

---------------------------------------------------------------------------
(* The values a plugin hands to the renderer.  kind is the class of the    *)
(* value; a BaseObject carries the outcomes of its __int__, __unicode__    *)
(* and __str__; the other kinds carry b, n, text or reason.                *)
Texts == UNION {[1..n -> Chars] : n \in 0..MaxTextLen}

NoText == <<>>

Value(kind, int, uni, str, b, n, text) ==
  [kind |-> kind, int |-> int, uni |-> uni, str |-> str, b |-> b, n |-> n, text |-> text]

BaseObject(int, uni, str) == Value("BaseObject", int, uni, str, FALSE, 0, NoText)
PyBool(b)       == Value("bool", Raise("", 0), Raise("", NoText), Raise("", NoText), b, 0, NoText)
PyInt_(n)       == Value("int", Raise("", 0), Raise("", NoText), Raise("", NoText), FALSE, n, NoText)
PyText(t)       == Value("basestring", Raise("", 0), Raise("", NoText), Raise("", NoText), FALSE, 0, t)
NoneObject(t)   == Value("NoneObject", Raise("", 0), Raise("", NoText), Raise("", NoText), FALSE, 0, t)
OtherValue(t)   == Value("other", Raise("", 0), Raise("", NoText), Raise("", NoText), FALSE, 0, t)

(* isinstance(value, cls): a Python bool is an int as well.                *)
IsInstance(value, cls) ==
  \/ value.kind = cls
  \/ cls = "int" /\ value.kind = "bool"

IntOutcomes ==
  {Ret(n, 0) : n \in {0, 7, 0 - 7}} \cup {Raise(e, 0) : e \in {"AttributeError", "ValueError"}}
UniOutcomes ==
  {Ret(t, NoText) : t \in Texts} \cup {Raise(e, NoText) : e \in {"AttributeError", "ValueError"}}
StrOutcomes ==
  {Ret(t, NoText) : t \in {<<>>, <<"7">>, <<"x">>}} \cup {Raise("ValueError", NoText)}

BaseObjects == {BaseObject(i, u, s) : i \in IntOutcomes, u \in UniOutcomes, s \in StrOutcomes}

Values ==
  BaseObjects
    \cup {PyBool(b) : b \in BOOLEAN}
    \cup {PyInt_(n) : n \in {0, 1, 5}}
    \cup {PyText(t) : t \in {<<>>, <<"7">>, <<"x">>}}
    \cup {NoneObject(<<"x">>), OtherValue(<<"x">>)}

---------------------------------------------------------------------------
(* One value record of the response (row.values.add()): every field is     *)
(* optional.                                                               *)
NewValue ==
  [type |-> Unset, name |-> Unset, offset |-> Unset, vm |-> Unset,
   value |-> Unset, svalue |-> Unset, reason |-> Unset]

(* Reading an integer field that is not set gives the protobuf default.    *)
ReadValue(response) ==
  IF IsSet(response.value) THEN Get1(response.value) ELSE 0

Caught == {"AttributeError", "ValueError"}

(* Lines 114-120: string_value of an object; bound is FALSE when both      *)
(* renderings raised a caught exception and the name was never assigned.   *)
StringValue(value) ==
  IF value.uni.ok THEN [bound |-> TRUE, val |-> value.uni.val, exc |-> ""]
  ELSE IF value.uni.exc \notin Caught THEN [bound |-> FALSE, val |-> NoText, exc |-> value.uni.exc]
  ELSE IF value.str.ok THEN [bound |-> TRUE, val |-> value.str.val, exc |-> ""]
  ELSE IF value.str.exc \notin Caught THEN [bound |-> FALSE, val |-> NoText, exc |-> value.str.exc]
  ELSE [bound |-> FALSE, val |-> NoText, exc |-> ""]

(* Lines 123-131: int_value is the outcome of int(string_value).           *)
SendIfDifferent(response, string_value, int_value) ==
  IF int_value.ok
  THEN IF int_value.val # ReadValue(response)
       THEN [response EXCEPT !.svalue = Some(string_value)]
       ELSE response
  ELSE [response EXCEPT !.svalue = Some(string_value)]

(* Lines 122-131: the string field of an object's record.                  *)
ObjectSvalue(response, string_value) ==
  IF string_value = <<>> THEN response
  ELSE SendIfDifferent(response, string_value, PyInt(string_value))

(* Lines 109-112: response.value = value.__int__().                        *)
ObjectValue(response, value) ==
  IF value.int.ok THEN [response EXCEPT !.value = Some(value.int.val)] ELSE response

(* Lines 122-131 for the string_value sv of lines 114-120: the record, and *)
(* the exception that leaves AddValue ("" when it returns).                *)
ObjectString(response, sv) ==
  IF sv.exc # "" THEN [response |-> response, exc |-> sv.exc]
  ELSE IF ~sv.bound THEN [response |-> response, exc |-> "UnboundLocalError"]
  ELSE [response |-> ObjectSvalue(response, sv.val), exc |-> ""]

(* Lines 104-107.                                                          *)
ObjectHeader(response) ==
  [response EXCEPT !.type = Some("obj_type"), !.name = Some("obj_name"),
                   !.offset = Some(0), !.vm = Some("obj_vm")]

(* Lines 103-131: the record of a BaseObject.                              *)
AddObject(response, value) ==
  IF ~value.int.ok /\ value.int.exc \notin Caught
  THEN [response |-> ObjectHeader(response), exc |-> value.int.exc]
  ELSE ObjectString(ObjectValue(ObjectHeader(response), value), StringValue(value))

(* Mutant: the integer test comes before the boolean test.                 *)
Fill_IntFirst(response, value) ==
  IF IsInstance(value, "BaseObject") THEN AddObject(response, value)
  ELSE IF IsInstance(value, "int")
    THEN [response |-> [response EXCEPT !.value =
                          Some(IF value.kind = "bool" THEN (IF value.b THEN 1 ELSE 0)
                               ELSE value.n)],
          exc |-> ""]
  ELSE IF IsInstance(value, "basestring")
    THEN [response |-> [response EXCEPT !.svalue = Some(value.text)], exc |-> ""]
  ELSE IF IsInstance(value, "NoneObject")
    THEN [response |-> [response EXCEPT !.type = Some("NoneObject"),
                                        !.reason = Some(value.text)], exc |-> ""]
  ELSE [response |-> [response EXCEPT !.svalue = Some(<<"r", "e", "p", "r">> \o value.text)],
        exc |-> ""]

(* Mutant: the tests are independent ("if" for "elif"), so that a boolean  *)
(* is filled by the boolean branch and by the integer branch.              *)
Fill_Fallthrough(response, value) ==
  IF IsInstance(value, "BaseObject") THEN AddObject(response, value)
  ELSE IF IsInstance(value, "bool")
    THEN [response |-> [response EXCEPT !.svalue = Some(PyStrBool(value.b)),
                                        !.value = Some(IF value.b THEN 1 ELSE 0)],
          exc |-> ""]
  ELSE IF IsInstance(value, "int")
    THEN [response |-> [response EXCEPT !.value = Some(value.n)], exc |-> ""]
  ELSE IF IsInstance(value, "basestring")
    THEN [response |-> [response EXCEPT !.svalue = Some(value.text)], exc |-> ""]
  ELSE IF IsInstance(value, "NoneObject")
    THEN [response |-> [response EXCEPT !.type = Some("NoneObject"),
                                        !.reason = Some(value.text)], exc |-> ""]
  ELSE [response |-> [response EXCEPT !.svalue = Some(<<"r", "e", "p", "r">> \o value.text)],
        exc |-> ""]

(* Lines 103-143: the new record filled for the value.                     *)
Fill(response, value) ==
  IF IsInstance(value, "BaseObject") THEN AddObject(response, value)
  ELSE IF IsInstance(value, "bool")
    THEN [response |-> [response EXCEPT !.svalue = Some(PyStrBool(value.b))], exc |-> ""]
  ELSE IF IsInstance(value, "int")
    THEN [response |-> [response EXCEPT !.value = Some(value.n)], exc |-> ""]
  ELSE IF IsInstance(value, "basestring")
    THEN [response |-> [response EXCEPT !.svalue = Some(value.text)], exc |-> ""]
  ELSE IF IsInstance(value, "NoneObject")
    THEN [response |-> [response EXCEPT !.type = Some("NoneObject"),
                                        !.reason = Some(value.text)], exc |-> ""]
  ELSE [response |-> [response EXCEPT !.svalue = Some(<<"r", "e", "p", "r">> \o value.text)],
        exc |-> ""]

(* Line 102: response = row.values.add(); the record is in the row         *)
(* whether or not filling it raised.                                       *)
AddFilled(row, filled) ==
  [values |-> Append(row, filled.response), exc |-> filled.exc]

(* ProtobufRenderer.AddValue(row, value): row is the list of value records *)
(* and the result is the list after the call, with the exception the call  *)
(* raised ("" when it returned).                                           *)
AddValue(row, value) == AddFilled(row, Fill(NewValue, value))

(* for value in args: self.AddValue(row, value), stopping at an exception. *)
RECURSIVE AddValues(_, _)
AddMore(one, data) ==
  IF one.exc # "" THEN one ELSE AddValues(one.values, data)

AddValues(row, data) ==
  IF data = <<>> THEN [values |-> row, exc |-> ""]
  ELSE AddMore(AddValue(row, Head(data)), Tail(data))

---------------------------------------------------------------------------
(* ProtobufRenderer.                                                       *)
Modes_TABLE  == 1
Modes_STRING == 2
NoMode == 0      \* self.mode = None

(* jobs_pb2.VolatilityResponse() and one sections.add().                   *)
NewResponse == [plugin |-> "", error |-> "", sections |-> <<>>]
NewSection ==
  [table |-> [headers |-> <<>>, rows |-> <<>>],
   formatted_value_list |-> [formatted_values |-> <<>>]]

(* __init__: active_section is an index into response.sections, 0 for None.*)
NewRenderer == [response |-> NewResponse, active_section |-> 0, mode |-> NoMode]

(* Mutant: every write starts a section of its own.                        *)
InitSection_AlwaysNew(self, mode) ==
  [self EXCEPT !.response.sections = Append(@, NewSection),
               !.active_section = Len(self.response.sections) + 1,
               !.mode = mode]

(* Mutant: a change of mode does not leave the active section.             *)
InitSection_NoSplit(self, mode) ==
  LET s2 == IF self.active_section = 0
            THEN [self EXCEPT !.response.sections = Append(@, NewSection),
                              !.active_section = Len(self.response.sections) + 1]
            ELSE self
  IN  [s2 EXCEPT !.mode = mode]

(* Lines 56-58, for the renderer self after lines 54-55.                   *)
Activate(self, mode) ==
  [(IF self.active_section = 0
    THEN [self EXCEPT !.response.sections = Append(@, NewSection),
                      !.active_section = Len(self.response.sections) + 1]
    ELSE self) EXCEPT !.mode = mode]

InitSection(self, mode) ==
  Activate(IF self.mode # mode THEN [self EXCEPT !.active_section = 0] ELSE self, mode)

start(self, plugin_name) ==
  IF plugin_name # "" THEN [self EXCEPT !.response.plugin = plugin_name] ELSE self

(* Lines 74-80, for the renderer self after InitSection and the values     *)
(* added = data coerced.                                                   *)
AddFormatted(self, formatstring, added) ==
  [self |-> [self EXCEPT
               !.response.sections[self.active_section].formatted_value_list.formatted_values =
                 Append(@, [formatstring |-> formatstring, data |-> added.values])],
   exc |-> added.exc]

(* format(formatstring, *data): the renderer after the call and the        *)
(* exception the call raised ("" when it returned).                        *)
format(self, formatstring, data) ==
  AddFormatted(InitSection(self, Modes_STRING), formatstring, AddValues(<<>>, data))

write(self, data) == format(self, data, <<>>)

(* Mutant: section() forgets to drop the active section.                   *)
section_Noop(self) == self

section(self) == [self EXCEPT !.active_section = 0]

(* Lines 94-98, for the renderer self after InitSection.                   *)
AddHeaders(self, title_format_list) ==
  IF title_format_list = <<>>
  THEN [self |-> self, exc |-> "TypeError"]
  ELSE [self |-> [self EXCEPT !.response.sections[self.active_section].table.headers =
                                @ \o title_format_list[1]],
        exc |-> ""]

(* table_header(title_format_list=None): title_format_list is <<>> for     *)
(* None, which the loop cannot iterate, and <<list>> for a list of         *)
(* [print_name, name, format_hint].                                        *)
table_header(self, title_format_list) ==
  AddHeaders(InitSection(self, Modes_TABLE), title_format_list)

(* Mutant: the row goes to the first section of the response.              *)
AddRow_FirstSection(self, added) ==
  [self |-> [self EXCEPT !.response.sections[1].table.rows =
                           Append(@, [values |-> added.values])],
   exc |-> added.exc]

(* Lines 150-152, for the renderer self after InitSection.                 *)
AddRow(self, added) ==
  [self |-> [self EXCEPT !.response.sections[self.active_section].table.rows =
                           Append(@, [values |-> added.values])],
   exc |-> added.exc]

table_row(self, args_) ==
  AddRow(InitSection(self, Modes_TABLE), AddValues(<<>>, args_))

GetResponse(self) == self.response

---------------------------------------------------------------------------
(* Python objects held by a session attribute or sent as a request         *)
(* argument.                                                               *)
PyObj(kind, str, n) == [kind |-> kind, s |-> str, n |-> n]
None        == PyObj("None", "", 0)
Str(str)    == PyObj("str", str, 0)
Closure(i)  == PyObj("function", "Progress", i)    \* Run's local Progress, closed over self = i
Handle(key) == PyObj("handle", key, 0)             \* what vfs.VFSOpen(args.device) returns
Registry    == PyObj("plugins", "", 0)             \* the session's plugin container
Truthy(o)   == ~(o.kind = "None" \/ (o.kind = "str" /\ o.s = ""))
Callable(o) == o.kind = "function"

Inv == 1..NumRuns                 \* the invocations of Run, each on its own action instance
Keys == {"mem1", "mem2"}          \* args.device.path
PluginNames == {"pslist", "nosuch"}
KnownPlugins == {"pslist"}        \* the names the plugin container resolves

(* session.Session(): an attribute never set reads as None.                *)
NewSession ==
  [fhandle |-> None, progress |-> None, dtb |-> None, profile |-> None,
   plugins |-> Registry, verbose |-> None]

NoRequest == [device |-> [path |-> ""], args |-> <<>>, plugins |-> <<>>]

ValIdle ==
  /\ val_in = PyInt_(0)
  /\ val_out = <<>>

RendIdle ==
  /\ rend = NewRenderer
  /\ calls = <<>>
  /\ rexc = ""
  /\ returned = <<>>

RunIdle ==
  /\ SESSION_CACHE = <<>>
  /\ sessions = [i \in Inv |-> NewSession]
  /\ pc = [i \in Inv |-> "idle"]
  /\ args = [i \in Inv |-> NoRequest]
  /\ vol_session = [i \in Inv |-> <<>>]
  /\ plugin_i = [i \in Inv |-> 0]
  /\ error = [i \in Inv |-> ""]
  /\ exc = [i \in Inv |-> NoExc]
  /\ result_renderer = [i \in Inv |-> NewRenderer]
  /\ status = [i \in Inv |-> "idle"]
  /\ replies = [i \in Inv |-> <<>>]
  /\ sink = [i \in Inv |-> <<>>]
  /\ events = [i \in Inv |-> <<>>]
  /\ cachedAtGet = [i \in Inv |-> {}]
  /\ startedAfter = [i \in Inv |-> {}]

---------------------------------------------------------------------------
(* SpecValue: AddValue applied once to each value of Values.               *)
ValInit ==
  /\ val_in \in Values
  /\ val_out = <<>>
  /\ RendIdle
  /\ RunIdle

Coerce ==
  /\ val_out = <<>>
  /\ val_out' = <<AddValue(<<>>, val_in)>>
  /\ UNCHANGED <<val_in, rendvars, runvars>>

ValNext == Coerce

SpecValue == ValInit /\ [][ValNext]_vars

---------------------------------------------------------------------------
(* SpecRenderer: any sequence of at most MaxCalls calls on one renderer.   *)
FormatStrings == {"%s", "%d"}
ArgTuples == {<<>>, <<PyInt_(5)>>, <<PyText(<<"x">>), PyInt_(1)>>}
HeaderLists == {<<[print_name |-> "Pid", name |-> "pid", format_hint |-> ">6"]>>}

(* One call on the renderer: the method, its format string or plugin name, *)
(* its values, its title_format_list.                                      *)
Call(op, fs, data, headers) == [op |-> op, fs |-> fs, data |-> data, headers |-> headers]

Called(result, call) ==
  /\ Len(calls) < MaxCalls
  /\ rend' = result.self
  /\ rexc' = result.exc
  /\ calls' = Append(calls, call)
  /\ UNCHANGED <<returned, valvars, runvars>>

CallStart ==
  \E name \in {"", "pslist"} :
    Called([self |-> start(rend, name), exc |-> ""], Call("start", name, <<>>, <<>>))

CallFormat ==
  \E fs \in FormatStrings, data \in ArgTuples :
    Called(format(rend, fs, data), Call("format", fs, data, <<>>))

CallWrite ==
  \E data \in {"text"} :
    Called(write(rend, data), Call("write", data, <<>>, <<>>))

CallSection ==
  Called([self |-> section(rend), exc |-> ""], Call("section", "", <<>>, <<>>))

CallTableHeader ==
  \E l \in HeaderLists :
    Called(table_header(rend, <<l>>), Call("table_header", "", <<>>, l))

CallTableRow ==
  \E data \in ArgTuples :
    Called(table_row(rend, data), Call("table_row", "", data, <<>>))

(* GetResponse() (lines 154-155): the renderer is left as it is.           *)
CallGetResponse ==
  /\ Len(calls) < MaxCalls
  /\ returned' = <<GetResponse(rend)>>
  /\ rexc' = ""
  /\ calls' = Append(calls, Call("GetResponse", "", <<>>, <<>>))
  /\ UNCHANGED <<rend, valvars, runvars>>

RendInit == ValIdle /\ RendIdle /\ RunIdle

RendNext ==
  \/ CallStart
  \/ CallFormat
  \/ CallWrite
  \/ CallSection
  \/ CallTableHeader
  \/ CallTableRow
  \/ CallGetResponse

SpecRenderer == RendInit /\ [][RendNext]_vars

---------------------------------------------------------------------------
(* utils.FastStore, the class of SESSION_CACHE: a store of at most         *)
(* CacheSize objects that evicts the least recently used one.              *)
CacheHas(cache, key) == \E k \in 1..Len(cache) : cache[k].key = key

CacheIndex(cache, key) == CHOOSE k \in 1..Len(cache) : cache[k].key = key

CacheWithout(cache, key) ==
  IF CacheHas(cache, key)
  THEN LET k == CacheIndex(cache, key)
       IN  SubSeq(cache, 1, k - 1) \o SubSeq(cache, k + 1, Len(cache))
  ELSE cache

(* Get(key): the object, and the store with the entry made the most        *)
(* recently used; KeyError when the key is not held.                       *)
CacheGet(cache, key) ==
  IF CacheHas(cache, key)
  THEN LET e == cache[CacheIndex(cache, key)]
       IN  [ok |-> TRUE, data |-> e.data, cache |-> Append(CacheWithout(cache, key), e), exc |-> ""]
  ELSE [ok |-> FALSE, data |-> 0, cache |-> cache, exc |-> "KeyError"]

(* Put(key, obj): the entry replaces one of the same key and is the most   *)
(* recently used; the least recently used entries above CacheSize go.      *)
CachePut(cache, key, obj) ==
  LET put == Append(CacheWithout(cache, key), [key |-> key, data |-> obj])
  IN  IF Len(put) > CacheSize THEN SubSeq(put, Len(put) - CacheSize + 1, Len(put)) ELSE put

CachedSessions(cache) == {cache[k].data : k \in 1..Len(cache)}

---------------------------------------------------------------------------
(* VolatilityAction.Run.                                                   *)

(* The requests: args.device.path, args.args as the items of the           *)
(* dictionary, args.plugins.                                               *)
AttrNames  == {"progress", "profile", "verbose"}
AttrValues == {Str("v")}
ArgDicts   == {<<>>} \cup {<<<<k, v>>>> : k \in AttrNames, v \in AttrValues}
PluginLists(n) == UNION {[1..m -> PluginNames] : m \in 0..n}
Requests(n) ==
  {[device |-> [path |-> k], args |-> a, plugins |-> p] :
     k \in Keys, a \in ArgDicts, p \in PluginLists(n)}

(* History: one entry per step of Run, with the index and the name of the  *)
(* plugin the loop is at (0 and "" before the loop).                       *)
Event(ev, k, plugin) == [ev |-> ev, k |-> k, plugin |-> plugin]
Log(i, ev, plugin) ==
  events' = [events EXCEPT ![i] = Append(@, Event(ev, plugin_i[i], plugin))]

Ended(i) == status[i] \in {"returned", "raised"}
Session(i) == sessions[vol_session[i][1]]
Plugin(i) == args[i].plugins[plugin_i[i]]

(* The exception e leaves Run.                                             *)
Propagate(i, e) ==
  /\ status' = [status EXCEPT ![i] = "raised"]
  /\ exc' = [exc EXCEPT ![i] = e]
  /\ pc' = [pc EXCEPT ![i] = "done"]

(* "for plugin in args.plugins" (line 222) moves to plugin k, or Run       *)
(* returns; error = "" is line 223.                                        *)
ForPlugin(i, k) ==
  /\ plugin_i' = [plugin_i EXCEPT ![i] = k]
  /\ error' = [error EXCEPT ![i] = ""]
  /\ IF k <= Len(args[i].plugins)
     THEN /\ pc' = [pc EXCEPT ![i] = "Heartbeat"]
          /\ UNCHANGED <<status, exc>>
     ELSE /\ pc' = [pc EXCEPT ![i] = "done"]
          /\ status' = [status EXCEPT ![i] = "returned"]
          /\ UNCHANGED exc

(* The framework calls Run(args) on a fresh action instance; an invocation *)
(* begins after those of smaller number.  serial: no other one is running. *)
RunCall(i, requests, serial) ==
  /\ status[i] = "idle"
  /\ \A j \in Inv : j < i => status[j] # "idle"
  /\ serial => \A j \in Inv : status[j] # "running"
  /\ \E r \in requests :
       args' = [args EXCEPT ![i] = r]
  /\ status' = [status EXCEPT ![i] = "running"]
  /\ pc' = [pc EXCEPT ![i] = "Get"]
  /\ startedAfter' = [startedAfter EXCEPT ![i] = {j \in Inv : Ended(j)}]
  /\ UNCHANGED <<SESSION_CACHE, sessions, vol_session, plugin_i, error, exc,
                 result_renderer, replies, sink, events, cachedAtGet, valvars, rendvars>>

(* Mutant: the look-up is skipped and every run builds a session.          *)
RunGet_AlwaysMiss(i) ==
  /\ pc[i] = "Get"
  /\ cachedAtGet' = [cachedAtGet EXCEPT ![i] = CachedSessions(SESSION_CACHE)]
  /\ pc' = [pc EXCEPT ![i] = "Open"]
  /\ Log(i, "miss", "")
  /\ UNCHANGED <<SESSION_CACHE, vol_session, sessions, args, plugin_i, error, exc,
                 result_renderer, status, replies, sink, startedAfter, valvars, rendvars>>

(* Lines 185-187: vol_session = SESSION_CACHE.Get(args.device.path).       *)
RunGet(i) ==
  /\ pc[i] = "Get"
  /\ LET got == CacheGet(SESSION_CACHE, args[i].device.path)
     IN  /\ SESSION_CACHE' = got.cache
         /\ cachedAtGet' = [cachedAtGet EXCEPT ![i] = CachedSessions(SESSION_CACHE)]
         /\ IF got.ok
            THEN /\ vol_session' = [vol_session EXCEPT ![i] = <<got.data>>]
                 /\ pc' = [pc EXCEPT ![i] = "SetAttrs"]
                 /\ Log(i, "hit", "")
            ELSE /\ pc' = [pc EXCEPT ![i] = "Open"]
                 /\ Log(i, "miss", "")
                 /\ UNCHANGED vol_session
  /\ UNCHANGED <<sessions, args, plugin_i, error, exc, result_renderer, status, replies,
                 sink, startedAfter, valvars, rendvars>>

(* Mutant: the new session is put into the cache before the target is     *)
(* opened.                                                                 *)
RunOpen_PutFirst(i) ==
  /\ pc[i] = "Open"
  /\ vol_session' = [vol_session EXCEPT ![i] = <<i>>]
  /\ SESSION_CACHE' = CachePut(SESSION_CACHE, args[i].device.path, i)
  /\ \E opened \in {Ret(Handle(args[i].device.path), None), Raise("IOError", None)} :
       IF opened.ok
       THEN /\ sessions' = [sessions EXCEPT ![i] =
                              [NewSession EXCEPT !.fhandle = opened.val, !.progress = Closure(i)]]
            /\ pc' = [pc EXCEPT ![i] = "Dtb"]
            /\ Log(i, "open", "")
            /\ UNCHANGED <<status, exc>>
       ELSE /\ sessions' = [sessions EXCEPT ![i] = NewSession]
            /\ Propagate(i, Exc(opened.exc, "open failed", TRUE))
            /\ Log(i, "open_raised", "")
  /\ UNCHANGED <<args, plugin_i, error, result_renderer, replies, sink,
                 cachedAtGet, startedAfter, valvars, rendvars>>

(* Lines 194-198: a new session, the target opened, the heartbeat          *)
(* installed; vfs.VFSOpen may raise.  The session of invocation i has      *)
(* identity i.                                                             *)
RunOpen(i) ==
  /\ pc[i] = "Open"
  /\ vol_session' = [vol_session EXCEPT ![i] = <<i>>]
  /\ \E opened \in {Ret(Handle(args[i].device.path), None), Raise("IOError", None)} :
       IF opened.ok
       THEN /\ sessions' = [sessions EXCEPT ![i] =
                              [NewSession EXCEPT !.fhandle = opened.val, !.progress = Closure(i)]]
            /\ pc' = [pc EXCEPT ![i] = "Dtb"]
            /\ Log(i, "open", "")
            /\ UNCHANGED <<status, exc>>
       ELSE /\ sessions' = [sessions EXCEPT ![i] = NewSession]
            /\ Propagate(i, Exc(opened.exc, "open failed", TRUE))
            /\ Log(i, "open_raised", "")
  /\ UNCHANGED <<SESSION_CACHE, args, plugin_i, error, result_renderer, replies, sink,
                 cachedAtGet, startedAfter, valvars, rendvars>>

(* The handle of the live memory driver has cr3, another handle has not.   *)
HasCr3(handle) == handle.s = "mem1"

(* Lines 200-204: the dtb from the driver if possible.                     *)
RunDtb(i) ==
  /\ pc[i] = "Dtb"
  /\ sessions' = [sessions EXCEPT ![i].dtb =
                    IF HasCr3(Session(i).fhandle) THEN PyObj("int", "", 1) ELSE @]
  /\ pc' = [pc EXCEPT ![i] = "Guess"]
  /\ Log(i, "dtb", "")
  /\ UNCHANGED <<SESSION_CACHE, args, vol_session, plugin_i, error, exc, result_renderer,
                 status, replies, sink, cachedAtGet, startedAfter, valvars, rendvars>>

(* GuessProfile (lines 176-180): the profile volatility guesses on         *)
(* Windows, None elsewhere, AttributeError when volatility has no          *)
(* guess_profile plugin, or another failure of the plugin.                 *)
GuessProfile ==
  {Ret(Str("WinXPSP2x86"), None), Ret(None, None),
   Raise("AttributeError", None), Raise("IOError", None)}

DefaultProfile == Str("Win7SP1x64")

(* Lines 206-214: the guessed profile, or the default; the history tells   *)
(* a guessed profile ("guess") from the default ("guess_default").         *)
RunGuess(i) ==
  /\ pc[i] = "Guess"
  /\ \E guess \in GuessProfile :
       IF ~guess.ok /\ guess.exc # "AttributeError"
       THEN /\ Propagate(i, Exc(guess.exc, "guess failed", TRUE))
            /\ Log(i, "guess_raised", "")
            /\ UNCHANGED sessions
       ELSE LET guessed == IF guess.ok THEN guess.val ELSE Session(i).profile
            IN  /\ sessions' = [sessions EXCEPT ![i].profile =
                                  IF Truthy(guessed) THEN guessed ELSE DefaultProfile]
                /\ pc' = [pc EXCEPT ![i] = "Put"]
                /\ Log(i, IF Truthy(guessed) THEN "guess" ELSE "guess_default", "")
                /\ UNCHANGED <<status, exc>>
  /\ UNCHANGED <<SESSION_CACHE, args, vol_session, plugin_i, error, result_renderer,
                 replies, sink, cachedAtGet, startedAfter, valvars, rendvars>>

(* Line 216: SESSION_CACHE.Put(args.device.path, vol_session).             *)
RunPut(i) ==
  /\ pc[i] = "Put"
  /\ SESSION_CACHE' = CachePut(SESSION_CACHE, args[i].device.path, vol_session[i][1])
  /\ pc' = [pc EXCEPT ![i] = "SetAttrs"]
  /\ Log(i, "put", "")
  /\ UNCHANGED <<sessions, args, vol_session, plugin_i, error, exc, result_renderer,
                 status, replies, sink, cachedAtGet, startedAfter, valvars, rendvars>>

(* Mutant: the request's arguments are not applied.                        *)
SetAttrs_Skip(session, items) == session

(* setattr(vol_session, k, v) for every item.                              *)
RECURSIVE SetAttrs(_, _)
SetAttrs(session, items) ==
  IF items = <<>> THEN session
  ELSE SetAttrs([session EXCEPT ![Head(items)[1]] = Head(items)[2]], Tail(items))

(* Lines 218-222: the request's arguments are set on the session, and the  *)
(* loop over the plugins begins.                                           *)
RunSetAttrs(i) ==
  /\ pc[i] = "SetAttrs"
  /\ sessions' = [sessions EXCEPT ![vol_session[i][1]] = SetAttrs(@, args[i].args)]
  /\ ForPlugin(i, 1)
  /\ Log(i, "setattr", "")
  /\ UNCHANGED <<SESSION_CACHE, args, vol_session, result_renderer, replies, sink,
                 cachedAtGet, startedAfter, valvars, rendvars>>

(* Mutant: one renderer serves all the plugins of a run.                   *)
RunHeartbeat_SharedRenderer(i) ==
  /\ pc[i] = "Heartbeat"
  /\ LET progress == Session(i).progress
     IN  IF Callable(progress)
         THEN /\ sink' = [sink EXCEPT ![progress.n] = Append(@, [by |-> i, message |-> Plugin(i)])]
              /\ result_renderer' = [result_renderer EXCEPT ![i] = start(@, Plugin(i))]
              /\ pc' = [pc EXCEPT ![i] = "Resolve"]
              /\ Log(i, "heartbeat", Plugin(i))
              /\ UNCHANGED <<status, exc>>
         ELSE /\ Propagate(i, Exc("TypeError", "object is not callable", TRUE))
              /\ Log(i, "heartbeat_raised", Plugin(i))
              /\ UNCHANGED <<sink, result_renderer>>
  /\ UNCHANGED <<SESSION_CACHE, sessions, args, vol_session, plugin_i, error, replies,
                 cachedAtGet, startedAfter, valvars, rendvars>>

(* Line 226 and lines 228-229: the heartbeat, then a new renderer started  *)
(* with the plugin's name.  The session's progress is the closure of the   *)
(* invocation that built the session, which calls that instance's          *)
(* Progress(); calling anything else raises TypeError.                     *)
RunHeartbeat(i) ==
  /\ pc[i] = "Heartbeat"
  /\ LET progress == Session(i).progress
     IN  IF Callable(progress)
         THEN /\ sink' = [sink EXCEPT ![progress.n] = Append(@, [by |-> i, message |-> Plugin(i)])]
              /\ result_renderer' = [result_renderer EXCEPT ![i] = start(NewRenderer, Plugin(i))]
              /\ pc' = [pc EXCEPT ![i] = "Resolve"]
              /\ Log(i, "heartbeat", Plugin(i))
              /\ UNCHANGED <<status, exc>>
         ELSE /\ Propagate(i, Exc("TypeError", "object is not callable", TRUE))
              /\ Log(i, "heartbeat_raised", Plugin(i))
              /\ UNCHANGED <<sink, result_renderer>>
  /\ UNCHANGED <<SESSION_CACHE, sessions, args, vol_session, plugin_i, error, replies,
                 cachedAtGet, startedAfter, valvars, rendvars>>

(* Line 232: getattr(vol_session.plugins, plugin)(session=vol_session).    *)
RunResolve(i) ==
  /\ pc[i] = "Resolve"
  /\ IF Session(i).plugins = Registry /\ Plugin(i) \in KnownPlugins
     THEN /\ pc' = [pc EXCEPT ![i] = "Render"]
          /\ UNCHANGED exc
     ELSE /\ pc' = [pc EXCEPT ![i] = "Except"]
          /\ exc' = [exc EXCEPT ![i] = Exc("AttributeError", "has no attribute", TRUE)]
  /\ Log(i, "resolve", Plugin(i))
  /\ UNCHANGED <<SESSION_CACHE, sessions, args, vol_session, plugin_i, error,
                 result_renderer, status, replies, sink, cachedAtGet, startedAfter,
                 valvars, rendvars>>

(* One call of a render pass applied to the renderer.                      *)
ApplyCall(self, call) ==
  IF call.op = "start" THEN [self |-> start(self, call.fs), exc |-> ""]
  ELSE IF call.op = "format" THEN format(self, call.fs, call.data)
  ELSE IF call.op = "write" THEN write(self, call.fs)
  ELSE IF call.op = "section" THEN [self |-> section(self), exc |-> ""]
  ELSE IF call.op = "table_header" THEN table_header(self, <<call.headers>>)
  ELSE table_row(self, call.data)

RECURSIVE ApplyCalls(_, _)
ApplyMore(one, cs) ==
  IF one.exc # "" THEN one ELSE ApplyCalls(one.self, cs)

ApplyCalls(self, cs) ==
  IF cs = <<>> THEN [self |-> self, exc |-> ""]
  ELSE ApplyMore(ApplyCall(self, Head(cs)), Tail(cs))

(* vol_plugin.render(result_renderer): the calls a plugin makes on the     *)
(* renderer, and how a render pass ends: it returns after all of them, or  *)
(* raises after the first.                                                 *)
RenderCalls ==
  <<Call("table_header", "", <<>>, <<[print_name |-> "Pid", name |-> "pid", format_hint |-> ">6"]>>),
    Call("table_row", "", <<PyInt_(5)>>, <<>>)>>

PluginErrors ==
  {Exc("Exception", "", TRUE), Exc("Exception", "boom", TRUE), Exc("Exception", "caf<e9>", FALSE)}

RenderPasses ==
  {[calls |-> RenderCalls, exc |-> NoExc]}
    \cup {[calls |-> SubSeq(RenderCalls, 1, 1), exc |-> e] : e \in PluginErrors}

(* The render pass left the renderer as done.self and raised e (NoExc when *)
(* it returned).                                                           *)
Rendered(i, self, e) ==
  /\ result_renderer' = [result_renderer EXCEPT ![i] = self]
  /\ exc' = [exc EXCEPT ![i] = e]
  /\ pc' = [pc EXCEPT ![i] = IF e = NoExc THEN "Reply" ELSE "Except"]

RenderEnd(i, done, raised) ==
  Rendered(i, done.self, IF done.exc # "" THEN Exc(done.exc, "render", TRUE) ELSE raised)

(* Line 235: vol_plugin.render(result_renderer).                           *)
RunRender(i) ==
  /\ pc[i] = "Render"
  /\ \E pass \in RenderPasses :
       RenderEnd(i, ApplyCalls(result_renderer[i], pass.calls), pass.exc)
  /\ Log(i, "render", Plugin(i))
  /\ UNCHANGED <<SESSION_CACHE, sessions, args, vol_session, plugin_i, error, status,
                 replies, sink, cachedAtGet, startedAfter, valvars, rendvars>>

(* Lines 238-239: except Exception as e: error = str(e).  An exception     *)
(* raised by str(e) leaves the handler and Run.                            *)
RunExcept(i) ==
  /\ pc[i] = "Except"
  /\ LET str == PyStr(exc[i])
     IN  IF str.ok
         THEN /\ error' = [error EXCEPT ![i] = str.val]
              /\ exc' = [exc EXCEPT ![i] = NoExc]
              /\ pc' = [pc EXCEPT ![i] = "Reply"]
              /\ UNCHANGED status
         ELSE /\ Propagate(i, Exc(str.exc, "codec can't encode", TRUE))
              /\ UNCHANGED error
  /\ Log(i, "except", Plugin(i))
  /\ UNCHANGED <<SESSION_CACHE, sessions, args, vol_session, plugin_i, result_renderer,
                 replies, sink, cachedAtGet, startedAfter, valvars, rendvars>>

(* Lines 241-243: the response of the renderer, with the error if any.     *)
Response(self, err) ==
  LET response == GetResponse(self)
  IN  IF err # "" THEN [response EXCEPT !.error = err] ELSE response

(* Lines 241-246: the response is sent, and the loop goes on.              *)
RunReply(i) ==
  /\ pc[i] = "Reply"
  /\ LET response == Response(result_renderer[i], error[i])
     IN  /\ result_renderer' = [result_renderer EXCEPT ![i].response = response]
         /\ replies' = [replies EXCEPT ![i] = Append(@, response)]
  /\ ForPlugin(i, plugin_i[i] + 1)
  /\ Log(i, "reply", Plugin(i))
  /\ UNCHANGED <<SESSION_CACHE, sessions, args, vol_session, sink, cachedAtGet,
                 startedAfter, valvars, rendvars>>

RunStep(i) ==
  \/ RunGet(i)
  \/ RunOpen(i)
  \/ RunDtb(i)
  \/ RunGuess(i)
  \/ RunPut(i)
  \/ RunSetAttrs(i)
  \/ RunHeartbeat(i)
  \/ RunResolve(i)
  \/ RunRender(i)
  \/ RunExcept(i)
  \/ RunReply(i)

(* Spec: the invocations of Run follow one another.                        *)
Init == ValIdle /\ RendIdle /\ RunIdle

Next ==
  \E i \in Inv :
    \/ RunCall(i, Requests(MaxPlugins), TRUE)
    \/ RunStep(i)

Spec == Init /\ [][Next]_vars

(* SpecOverlap: the invocations of Run overlap, each step of one between   *)
(* any two steps of another; the requests carry at most one plugin.        *)
OverlapNext ==
  \E i \in Inv :
    \/ RunCall(i, Requests(1), FALSE)
    \/ RunStep(i)

SpecOverlap == Init /\ [][OverlapNext]_vars

---------------------------------------------------------------------------
(* What the claims about Run speak of.                                     *)
HasEvent(i, evs) == \E n \in 1..Len(events[i]) : events[i][n].ev \in evs
HasEventAt(i, evs, k) ==
  \E n \in 1..Len(events[i]) : events[i][n].ev \in evs /\ events[i][n].k = k
EventAt(i, ev, k) ==
  CHOOSE n \in 1..Len(events[i]) : events[i][n].ev = ev /\ events[i][n].k = k

Requested(i) == 1..Len(args[i].plugins)
SameKey(i, j) == args[i].device.path = args[j].device.path
PastGet(i) == pc[i] \notin {"idle", "Get"}

(* The run got its context: from the cache, or built and stored.           *)
Obtained(i) == HasEvent(i, {"hit", "put"})
(* Every heartbeat call of the run returned.                               *)
HeartbeatsReturned(i) == ~HasEvent(i, {"heartbeat_raised"})
(* Resolving or rendering plugin k of the run raised.                      *)
PluginRaised(i, k) == HasEventAt(i, {"except"}, k)
ConstructionFailed(i) == HasEvent(i, {"open_raised", "guess_raised"})
ConstructionEvents ==
  {"open", "open_raised", "dtb", "guess", "guess_default", "guess_raised", "put"}
PluginEvents == {"heartbeat", "heartbeat_raised", "resolve", "render", "except", "reply"}

(* C1, as stated: in every run whose context is obtained, whatever plugins *)
(* are unknown or fail during render, exactly one response is sent per     *)
(* requested plugin, the i-th labelled with the i-th requested name; a     *)
(* failing plugin never keeps a later one from being run and replied to.   *)
(* Only the runs whose heartbeat calls all returned are looked at.         *)
C1_AsStated ==
  \A i \in Inv :
    (Ended(i) /\ Obtained(i) /\ HeartbeatsReturned(i)) =>
      /\ Len(replies[i]) = Len(args[i].plugins)
      /\ \A k \in Requested(i) : replies[i][k].plugin = args[i].plugins[k]

(* C2, as stated: the response of a plugin has a non-empty error if and    *)
(* only if resolving or rendering that plugin raised, whatever the         *)
(* exception and its message, the responses being in request order.        *)
C2_AsStated ==
  \A i \in Inv :
    \A k \in 1..Len(replies[i]) :
      /\ replies[i][k].plugin = args[i].plugins[k]
      /\ (replies[i][k].error # "") <=> PluginRaised(i, k)

(* Two invocations overlap: each began before the other ended.             *)
Overlap(i, j) ==
  /\ i # j
  /\ status[i] # "idle" /\ status[j] # "idle"
  /\ i \notin startedAfter[j] /\ j \notin startedAfter[i]

(* C3, as stated: when invocations of Run for one key overlap, in any      *)
(* interleaving, at most one session is built for the key and all of them  *)
(* use that one.                                                           *)
C3_AsStated ==
  \A i, j \in Inv :
    (Overlap(i, j) /\ SameKey(i, j)) =>
      /\ ~(HasEvent(i, {"put"}) /\ HasEvent(j, {"put"}))
      /\ (Obtained(i) /\ Obtained(j)) => vol_session[i] = vol_session[j]

(* C4: when Run is executed twice in sequence for one key and the session  *)
(* the first run stored or used is still in the cache at the second run's  *)
(* look-up, the second run uses that very session: it does not open the    *)
(* target, guess the profile or put an entry into the cache.               *)
C4_SecondRunReuses ==
  \A i, j \in Inv :
    (/\ i \in startedAfter[j]
     /\ SameKey(i, j)
     /\ Obtained(i)
     /\ PastGet(j)
     /\ vol_session[i][1] \in cachedAtGet[j]) =>
      /\ vol_session[j] = vol_session[i]
      /\ HasEvent(j, {"hit"})
      /\ ~HasEvent(j, ConstructionEvents)

C4_Witness ==
  /\ status[1] = "returned" /\ status[2] = "returned"
  /\ 1 \in startedAfter[2]
  /\ SameKey(1, 2)
  /\ HasEvent(1, {"put"})
  /\ vol_session[2] = <<1>>
  /\ Len(replies[2]) = MaxPlugins

(* C5: when building the session fails in Run (VFSOpen raises, or the      *)
(* profile guess raises another exception than AttributeError), the        *)
(* exception leaves Run, nothing is put into the cache for the session, no *)
(* plugin is run and no response is sent; no other run ever uses the       *)
(* half-built session, and a later run for the key, when every earlier run *)
(* for the key failed that way, misses the cache and builds from the start.*)
C5_FailedBuildLeavesNothing ==
  \A i \in Inv :
    ConstructionFailed(i) =>
      /\ status[i] = "raised" /\ exc[i] # NoExc
      /\ ~HasEvent(i, {"put"})
      /\ i \notin CachedSessions(SESSION_CACHE)
      /\ ~HasEvent(i, PluginEvents)
      /\ replies[i] = <<>>
      /\ \A j \in Inv : j # i => vol_session[j] # <<i>>
      /\ \A j \in Inv :
            (/\ i \in startedAfter[j]
             /\ SameKey(i, j)
             /\ PastGet(j)
             /\ \A n \in startedAfter[j] : SameKey(n, j) => ConstructionFailed(n)) =>
              /\ events[j][1].ev = "miss"
              /\ Len(events[j]) >= 2 => events[j][2].ev \in {"open", "open_raised"}
              /\ vol_session[j] \in {<<>>, <<j>>}

C5_Witness ==
  /\ HasEvent(1, {"guess_raised"})
  /\ 1 \in startedAfter[2]
  /\ SameKey(1, 2)
  /\ HasEvent(2, {"put"})
  /\ status[2] = "returned"
  /\ Len(replies[2]) = MaxPlugins

(* C6, as stated: in every run, for each requested plugin in request       *)
(* order, the heartbeat "Running plugin <name>" comes before the plugin is *)
(* resolved or rendered and after the response of the plugin before it was *)
(* sent, and it comes for every requested plugin, also when the plugin     *)
(* before it failed.  Only the runs whose heartbeat calls all returned are *)
(* looked at.                                                              *)
C6_AsStated ==
  \A i \in Inv :
    (Obtained(i) /\ HeartbeatsReturned(i)) =>
      /\ \A k \in Requested(i) :
            /\ HasEventAt(i, {"resolve", "render"}, k) =>
                  /\ HasEventAt(i, {"heartbeat"}, k)
                  /\ events[i][EventAt(i, "heartbeat", k)].plugin = args[i].plugins[k]
                  /\ \A n \in 1..Len(events[i]) :
                        (events[i][n].ev \in {"resolve", "render"} /\ events[i][n].k = k) =>
                          EventAt(i, "heartbeat", k) < n
            /\ (k > 1 /\ HasEventAt(i, {"heartbeat"}, k)) =>
                  /\ HasEventAt(i, {"reply"}, k - 1)
                  /\ EventAt(i, "reply", k - 1) < EventAt(i, "heartbeat", k)
      /\ Ended(i) => \A k \in Requested(i) : HasEventAt(i, {"heartbeat"}, k)

---------------------------------------------------------------------------
(* What the claims about the renderer speak of.                            *)
Sections == rend.response.sections
IsTextSection(sec)  == sec.formatted_value_list.formatted_values # <<>>
IsTableSection(sec) == sec.table.rows # <<>> \/ sec.table.headers # <<>>
TextOps  == {"format", "write"}
WriteOps == {"table_header", "table_row", "format", "write"}

RECURSIVE SelectCalls(_, _)
SelectCalls(cs, ops) ==
  IF cs = <<>> THEN <<>>
  ELSE IF Head(cs).op \in ops THEN <<Head(cs)>> \o SelectCalls(Tail(cs), ops)
  ELSE SelectCalls(Tail(cs), ops)

HasCall(ops) == \E k \in 1..Len(calls) : calls[k].op \in ops

(* The record AddValue is expected to make of a plain integer or text.     *)
CarriesValue(rec, v) ==
  /\ v.kind = "int" => rec.value = Some(v.n) /\ rec.svalue = Unset
  /\ v.kind = "basestring" => rec.svalue = Some(v.text) /\ rec.value = Unset

CarriesRow(values, data) ==
  /\ Len(values) = Len(data)
  /\ \A j \in 1..Len(data) : CarriesValue(values[j], data[j])

(* The formatted values of a text section are the given text calls.        *)
HoldsEntries(sec, cs) ==
  LET fv == sec.formatted_value_list.formatted_values
  IN  /\ Len(fv) = Len(cs)
      /\ \A k \in 1..Len(cs) :
            /\ fv[k].formatstring = cs[k].fs
            /\ CarriesRow(fv[k].data, cs[k].data)
      /\ ~IsTableSection(sec)

(* The rows of a table section are the given table_row calls.              *)
HoldsRows(sec, cs) ==
  /\ Len(sec.table.rows) = Len(cs)
  /\ \A k \in 1..Len(cs) : CarriesRow(sec.table.rows[k].values, cs[k].data)
  /\ sec.table.headers = <<>>
  /\ ~IsTextSection(sec)

(* C7, as stated: for any sequence of operations that contains format or   *)
(* write calls and no table_row call, the response ends with exactly one   *)
(* text section, which holds every formatted entry in call order.          *)
C7_AsStated ==
  (HasCall(TextOps) /\ ~HasCall({"table_row"})) =>
    /\ Cardinality({k \in 1..Len(Sections) : IsTextSection(Sections[k])}) = 1
    /\ IsTextSection(Sections[Len(Sections)])
    /\ HoldsEntries(Sections[Len(Sections)], SelectCalls(calls, TextOps))

(* C7, amended: for any sequence of operations that contains format or     *)
(* write calls and no table_row, table_header or section call, the         *)
(* response has exactly one section, a text section, which holds every     *)
(* formatted entry in call order.                                          *)
C7_OneTextSection ==
  (HasCall(TextOps) /\ ~HasCall({"table_row", "table_header", "section"})) =>
    /\ Len(Sections) = 1
    /\ IsTextSection(Sections[1])
    /\ HoldsEntries(Sections[1], SelectCalls(calls, TextOps))

C7_Witness ==
  /\ Len(calls) = MaxCalls
  /\ \A k \in 1..Len(calls) : calls[k].op \in TextOps
  /\ \E k \in 2..Len(calls) : calls[k].fs # calls[1].fs
  /\ Len(Sections) = 1
  /\ Len(Sections[1].formatted_value_list.formatted_values) = MaxCalls

(* The maximal runs of calls of one mode, in call order.                   *)
ModeOf(call) == IF call.op = "table_row" THEN Modes_TABLE ELSE Modes_STRING

RECURSIVE RunsOf(_)
RunsOf(cs) ==
  IF cs = <<>> THEN <<>>
  ELSE LET rest == RunsOf(Tail(cs))
       IN  IF rest # <<>> /\ ModeOf(Head(rest[1])) = ModeOf(Head(cs))
           THEN <<<<Head(cs)>> \o rest[1]>> \o Tail(rest)
           ELSE <<<<Head(cs)>>>> \o rest

ModeChanges(cs) ==
  Cardinality({k \in 1..(Len(cs) - 1) : ModeOf(cs[k]) # ModeOf(cs[k + 1])})

(* C8: for any sequence of table_row and format calls on a fresh renderer, *)
(* the sections are exactly the maximal runs of same-mode calls, in call   *)
(* order: as many sections as mode changes plus one, consecutive sections  *)
(* of different modes, each holding exactly the rows or entries of its run *)
(* in call order.                                                          *)
C8_SectionsAreRuns ==
  (\A k \in 1..Len(calls) : calls[k].op \in {"table_row", "format"}) =>
    LET runs == RunsOf(calls)
    IN  /\ Len(Sections) = Len(runs)
        /\ calls # <<>> => Len(Sections) = ModeChanges(calls) + 1
        /\ \A k \in 1..(Len(Sections) - 1) :
              IsTextSection(Sections[k]) # IsTextSection(Sections[k + 1])
        /\ \A k \in 1..Len(runs) :
              IF ModeOf(runs[k][1]) = Modes_TABLE
              THEN HoldsRows(Sections[k], runs[k])
              ELSE HoldsEntries(Sections[k], runs[k])

C8_Witness ==
  /\ Len(calls) = MaxCalls
  /\ \A k \in 1..Len(calls) : calls[k].op \in {"table_row", "format"}
  /\ calls[1].op = "table_row" /\ calls[2].op = "table_row" /\ calls[3].op = "format"
  /\ calls[1].data # calls[2].data
  /\ Len(Sections) >= 2
  /\ Len(Sections[1].table.rows) = 2

(* A section() call came last, but for start calls.                        *)
RECURSIVE Closed(_)
Closed(cs) ==
  /\ cs # <<>>
  /\ \/ cs[Len(cs)].op = "section"
     \/ cs[Len(cs)].op = "start" /\ Closed(SubSeq(cs, 1, Len(cs) - 1))

(* C9: after section(), the next table_header, table_row or format call    *)
(* starts a new section, also when its mode is the mode of the last write; *)
(* section() itself leaves the sections produced so far, and what they     *)
(* hold, unchanged.                                                        *)
C9_SectionCloses ==
  [][Len(calls') = Len(calls) + 1 =>
       LET call == calls'[Len(calls')]
           before == rend.response.sections
           after  == rend'.response.sections
       IN  /\ call.op = "section" => rend'.response = rend.response
           /\ (call.op \in WriteOps /\ Closed(calls)) =>
                 /\ Len(after) = Len(before) + 1
                 /\ SubSeq(after, 1, Len(before)) = before
                 /\ rend'.active_section = Len(after)]_vars

C9_Witness ==
  /\ Len(calls) = 3
  /\ calls[1].op = "table_row" /\ calls[2].op = "section" /\ calls[3].op = "table_row"
  /\ Len(Sections) = 2
  /\ Len(Sections[1].table.rows) = 1 /\ Len(Sections[2].table.rows) = 1

---------------------------------------------------------------------------
(* What the claims about AddValue speak of.                                *)
HasText(v) == v.uni.ok \/ v.str.ok
TextualRendering(v) == IF v.uni.ok THEN v.uni.val ELSE v.str.val

(* Reading a string field that is not set gives the empty text.            *)
ReadSvalue(rec) == IF IsSet(rec.svalue) THEN Get1(rec.svalue) ELSE <<>>

(* C10, as stated: for every BaseObject and every textual rendering it can *)
(* produce, svalue is absent when the rendering parses to the integer of   *)
(* the object's integer rendering, and present, carrying the rendering,    *)
(* when it parses to another integer or does not parse at all.  An empty   *)
(* rendering is taken as carried by a string field that is not set (it     *)
(* reads as the empty text): the reading most favourable to the code.      *)
C10_AsStated ==
  (val_out # <<>> /\ val_in.kind = "BaseObject" /\ HasText(val_in) /\ val_out[1].exc = "") =>
    LET text == TextualRendering(val_in)
        rec == val_out[1].values[1]
        parsed == PyInt(text)
        same == parsed.ok /\ val_in.int.ok /\ parsed.val = val_in.int.val
    IN  IF same THEN rec.svalue = Unset
        ELSE /\ ReadSvalue(rec) = text
             /\ text # <<>> => IsSet(rec.svalue)

(* C11, as stated: coercion is total.  For every input value, a BaseObject *)
(* without integer conversion, unicode rendering and string rendering and  *)
(* a NoneObject included, AddValue returns without raising and has         *)
(* appended exactly one value record to the row.                           *)
C11_AsStated ==
  val_out # <<>> =>
    /\ val_out[1].exc = ""
    /\ Len(val_out[1].values) = 1

(* C12: for every boolean, AddValue makes a record whose string field is   *)
(* the non-empty text of the boolean ("True", "False") and whose integer   *)
(* field is not set, although a boolean passes the integer test as well.   *)
C12_BooleanAsText ==
  (val_out # <<>> /\ val_in.kind = "bool") =>
    /\ IsInstance(val_in, "int")
    /\ val_out[1].exc = ""
    /\ Len(val_out[1].values) = 1
    /\ val_out[1].values[1].svalue = Some(PyStrBool(val_in.b))
    /\ Get1(val_out[1].values[1].svalue) # <<>>
    /\ val_out[1].values[1].value = Unset

C12_Witness ==
  /\ val_in = PyBool(TRUE)
  /\ val_out # <<>>
  /\ val_out[1].values[1].svalue = Some(<<"T", "r", "u", "e">>)

(* The tests of AddValue in their order, and the first one a value passes. *)
Tests == <<"BaseObject", "bool", "int", "basestring", "NoneObject">>
FirstTest(v) ==
  IF \E k \in 1..Len(Tests) : IsInstance(v, Tests[k])
  THEN Tests[CHOOSE k \in 1..Len(Tests) :
               IsInstance(v, Tests[k]) /\ \A m \in 1..(k - 1) : ~IsInstance(v, Tests[m])]
  ELSE "fallback"

(* The fields of a record that are set.                                    *)
FieldNames == {"type", "name", "offset", "vm", "value", "svalue", "reason"}
FieldsSet(rec) == {f \in FieldNames : IsSet(rec[f])}

(* The record is the one the variant of the given test makes of v.         *)
FilledAs(rec, test, v) ==
  IF test = "BaseObject"
    THEN /\ {"type", "name", "offset", "vm"} \subseteq FieldsSet(rec)
         /\ "reason" \notin FieldsSet(rec)
         /\ IsSet(rec.value) => (v.int.ok /\ rec.value = Some(v.int.val))
         /\ IsSet(rec.svalue) => (HasText(v) /\ rec.svalue = Some(TextualRendering(v)))
  ELSE IF test = "bool"
    THEN FieldsSet(rec) = {"svalue"} /\ rec.svalue = Some(PyStrBool(v.b))
  ELSE IF test = "int"
    THEN FieldsSet(rec) = {"value"} /\ rec.value = Some(v.n)
  ELSE IF test = "basestring"
    THEN FieldsSet(rec) = {"svalue"} /\ rec.svalue = Some(v.text)
  ELSE IF test = "NoneObject"
    THEN FieldsSet(rec) = {"type", "reason"} /\ rec.reason = Some(v.text)
                                             /\ rec.type = Some("NoneObject")
  ELSE FieldsSet(rec) = {"svalue"} /\ rec.svalue = Some(<<"r", "e", "p", "r">> \o v.text)

(* C13: for every value, AddValue fills the record by exactly one variant, *)
(* the one of the first test the value passes in the order BaseObject,     *)
(* bool, int, basestring, NoneObject, fallback; no later variant fills a   *)
(* field; and the same value coerced again, into a row that is not empty,  *)
(* gives the same record.                                                  *)
C13_FirstTestDecides ==
  val_out # <<>> =>
    LET rec == val_out[1].values[1]
        again == AddValue(val_out[1].values, val_in)
    IN  /\ FilledAs(rec, FirstTest(val_in), val_in)
        /\ \A k \in 1..Len(Tests) :
              (IsInstance(val_in, Tests[k]) /\ Tests[k] # FirstTest(val_in)) =>
                ~FilledAs(rec, Tests[k], val_in)
        /\ again.values[Len(again.values)] = rec
        /\ again.exc = val_out[1].exc

C13_Witness ==
  /\ val_in = PyBool(FALSE)
  /\ val_out # <<>>
  /\ FieldsSet(val_out[1].values[1]) = {"svalue"}
  /\ FirstTest(val_in) = "bool"

---------------------------------------------------------------------------
(* More about Run.                                                         *)

(* The profile guess of the run gave no profile: it is unavailable         *)
(* (AttributeError), unsupported on the platform (None), or it failed with *)
(* another exception.                                                      *)
NoProfileGuessed(i) == HasEvent(i, {"guess_default", "guess_raised"})

(* C14, as stated: when a session is built and the profile guess is        *)
(* unavailable, unsupported on the platform or fails in any way, the       *)
(* session gets the default profile "Win7SP1x64", the failure does not     *)
(* leave Run as an error, the session is put into the cache and every      *)
(* requested plugin is run.                                                *)
C14_AsStated ==
  \A i \in Inv :
    NoProfileGuessed(i) =>
      /\ ~HasEvent(i, {"guess_raised"})
      /\ pc[i] = "Put" => Session(i).profile = DefaultProfile
      /\ Ended(i) =>
            /\ HasEvent(i, {"put"})
            /\ \A k \in Requested(i) : HasEventAt(i, {"resolve"}, k)

(* The request of the run sets attribute k.                                *)
Sets(i, k) == \E n \in 1..Len(args[i].args) : args[i].args[n][1] = k
(* The first event of the run that belongs to a plugin, if any.            *)
FirstPluginEvent(i) ==
  CHOOSE n \in 1..Len(events[i]) :
    /\ events[i][n].ev \in PluginEvents
    /\ \A m \in 1..(n - 1) : events[i][m].ev \notin PluginEvents

(* C15: in every run, on a cache hit as on a miss, the attribute step      *)
(* comes before the first heartbeat and plugin, and at the first heartbeat *)
(* every requested attribute is on the session with the requested value;   *)
(* an attribute a run has set stays on the session with that value as long *)
(* as no later run that uses the session sets it again.                    *)
C15_AttributesSetAndKept ==
  \A i \in Inv :
    /\ HasEvent(i, PluginEvents) =>
          \E n \in 1..(FirstPluginEvent(i) - 1) : events[i][n].ev = "setattr"
    /\ (pc[i] = "Heartbeat" /\ plugin_i[i] = 1) =>
          /\ HasEvent(i, {"hit", "put"}) /\ HasEvent(i, {"setattr"})
          /\ \A n \in 1..Len(args[i].args) :
                Session(i)[args[i].args[n][1]] = args[i].args[n][2]
    /\ HasEvent(i, {"setattr"}) =>
          \A n \in 1..Len(args[i].args) :
            (\A j \in Inv :
                (i \in startedAfter[j] /\ vol_session[j] = vol_session[i]) =>
                  ~Sets(j, args[i].args[n][1])) =>
              Session(i)[args[i].args[n][1]] = args[i].args[n][2]

C15_Witness ==
  /\ status[1] = "returned" /\ status[2] = "returned"
  /\ 1 \in startedAfter[2]
  /\ HasEvent(1, {"put"}) /\ HasEvent(2, {"hit"})
  /\ vol_session[2] = <<1>>
  /\ args[1].args = <<<<"verbose", Str("v")>>>>
  /\ args[2].args = <<>>
  /\ sessions[1].verbose = Str("v")
  /\ Len(replies[2]) = MaxPlugins

(* C17, as stated: every heartbeat of a run reaches the progress sink of   *)
(* the invocation that executes the run, also when the session was found   *)
(* in the cache and was built by an earlier invocation, on another action  *)
(* instance: a sink holds the heartbeats of its own invocation only, one   *)
(* for each heartbeat the run has made.                                    *)
C17_AsStated ==
  \A i \in Inv :
    /\ \A n \in 1..Len(sink[i]) : sink[i][n].by = i
    /\ Len(sink[i]) =
          Cardinality({n \in 1..Len(events[i]) : events[i][n].ev = "heartbeat"})

(* C18, as stated: the attribute step of Run leaves the session's own      *)
(* fields as construction set them, whatever attribute names the request   *)
(* carries: after it the heartbeat callback (progress) is the closure      *)
(* installed at construction, the handle (fhandle) is the opened target,   *)
(* the plugin registry (plugins) is the session's, and the profile is the  *)
(* guessed or the default one; so the heartbeat call of the run returns.   *)
C18_AsStated ==
  \A i \in Inv :
    HasEvent(i, {"setattr"}) =>
      /\ Session(i).progress = Closure(vol_session[i][1])
      /\ Session(i).fhandle = Handle(args[i].device.path)
      /\ Session(i).plugins = Registry
      /\ \E guess \in GuessProfile :
            guess.ok /\ Session(i).profile = (IF Truthy(guess.val) THEN guess.val
                                              ELSE DefaultProfile)
      /\ ~HasEvent(i, {"heartbeat_raised"})

(* The calls the render pass of plugin k of the run made on the renderer   *)
(* before it returned or raised: none when the plugin was not resolved.    *)
PassCalls(i, k) ==
  IF ~HasEventAt(i, {"render"}, k) THEN <<>>
  ELSE IF HasEventAt(i, {"except"}, k) THEN SubSeq(RenderCalls, 1, 1)
  ELSE RenderCalls

(* The document those calls make on a renderer of their own.               *)
OwnDocument(i, k) ==
  ApplyCalls(start(NewRenderer, args[i].plugins[k]), PassCalls(i, k)).self.response

(* C20: in a run over several plugins, the response sent for a plugin      *)
(* holds exactly the sections its own render pass produced before it       *)
(* returned or raised: what was written before a failure is in the         *)
(* document, also in one that carries an error, and no section, row or     *)
(* entry of another plugin of the run is.                                  *)
C20_OwnSectionsOnly ==
  \A i \in Inv :
    \A k \in 1..Len(replies[i]) :
      /\ replies[i][k].plugin = args[i].plugins[k]
      /\ replies[i][k].sections = OwnDocument(i, k).sections
      /\ (HasEventAt(i, {"render"}, k) /\ PluginRaised(i, k)) =>
            /\ Len(replies[i][k].sections) = 1
            /\ replies[i][k].sections[1].table.headers # <<>>
      /\ replies[i][k].error # "" => PluginRaised(i, k)

C20_Witness ==
  /\ status[1] = "returned"
  /\ args[1].plugins = <<"pslist", "pslist">>
  /\ Len(replies[1]) = 2
  /\ replies[1][1].error = "boom"
  /\ Len(replies[1][1].sections) = 1
  /\ replies[1][1].sections[1].table.headers # <<>>
  /\ replies[1][1].sections[1].table.rows = <<>>
  /\ replies[1][2].error = ""
  /\ Len(replies[1][2].sections) = 1
  /\ Len(replies[1][2].sections[1].table.rows) = 1

---------------------------------------------------------------------------
(* More about the renderer.                                                *)
BuilderOps == {"table_header", "table_row", "format", "write", "section", "start"}

(* C16, as stated: once GetResponse() has been called, a later call of a   *)
(* builder method (table_header, table_row, format, write, section, start) *)
(* is rejected, it raises, and the document that was returned is not       *)
(* changed; GetResponse() itself returns without changing the renderer.    *)
C16_AsStated ==
  returned # <<>> =>
    /\ GetResponse(rend) = returned[1]
    /\ calls[Len(calls)].op \in BuilderOps => rexc # ""
    /\ calls[Len(calls)].op = "GetResponse" => rexc = ""

(* C19: after any sequence of start, table_header, table_row, format,      *)
(* write and section calls, no section holds both table content (headers   *)
(* or rows) and formatted entries; and every call keeps or grows the       *)
(* number of sections and changes at most the last section: every section  *)
(* that was there before the call and is not the last one after it is      *)
(* exactly as it was.                                                      *)
C19_SectionsStayApart ==
  /\ [](\A k \in 1..Len(Sections) :
          ~(IsTableSection(Sections[k]) /\ IsTextSection(Sections[k])))
  /\ [][LET before == rend.response.sections
            after  == rend'.response.sections
        IN  /\ Len(after) >= Len(before)
            /\ \A k \in 1..Len(before) : k < Len(after) => after[k] = before[k]]_vars

C19_Witness ==
  /\ Len(calls) = MaxCalls
  /\ calls[MaxCalls].op = "table_row"
  /\ Len(Sections) = 3
  /\ Sections[1].table.rows # <<>>
  /\ IsTextSection(Sections[2])
  /\ Sections[3].table.headers # <<>> /\ Sections[3].table.rows # <<>>

====
